---- MODULE Spec2Model ----
(***************************************************************************)
(* Model of cdutil/vertical.py: linearInterpolation and                    *)
(* logLinearInterpolation (vertical remapping of a field from per-column   *)
(* source levels to a list of target levels).                              *)
(*                                                                         *)
(* Arrays are indexed as in the source: source levels 0..nsigma-1, target  *)
(* levels 0..nlev-1.  The non-vertical dimensions are flattened into a     *)
(* set of columns; every MV2 operation of the source acts elementwise on   *)
(* the columns.                                                            *)
(*                                                                         *)
(* A masked scalar (one cell of an MV2 array) is a record                  *)
(*   [mask, num, den, sym]: mask = TRUE is a missing cell; otherwise the   *)
(* value is the rational num/den (den > 0, lowest terms), or, when sym is  *)
(* not empty, the irrational value of the log-linear expression on the     *)
(* operands listed in sym.  The coordinate array is taken unmasked (plain  *)
(* integers).  The coordinate and target values are chosen so that every   *)
(* quotient of the linear expression is a dyadic rational, which double    *)
(* precision computes without rounding.                                    *)
(*                                                                         *)
(* cdms2.createAxis is a call into another library: it returns or raises.  *)
(***************************************************************************)
EXTENDS Integers, Sequences, FiniteSets, TLC

VARIABLES
    kind,        \* which function was called: "linear" or "log"
    A,           \* the field, A[c][i]: masked scalar of column c, level i
    Idx,         \* the coordinate (Idx, or P in logLinearInterpolation)
    levels,      \* the target levels, levels[k], k in 0..nlev-1
    ilev,        \* number of target levels processed so far
    Iabv, Ibel,  \* per column: bracket coordinates left by the last scan
    Aabv, Abel,  \* per column: bracket field values left by the last scan
    Ieq,         \* per column: exact-match value left by the last scan
    t,           \* the output array, t[k][c]
    autoBounds,  \* cdms2's process-wide auto-bounds setting (0 off, 1 on, 2 grid)
    autobnds,    \* the local variable autobnds
    bounds0,     \* the auto-bounds setting when the call started
    pc           \* position in the function body

vars == <<kind, A, Idx, levels, ilev, Iabv, Ibel, Aabv, Abel, Ieq, t,
          autoBounds, autobnds, bounds0, pc>>

-----------------------------------------------------------------------------
(* Bounds of the model and the values the inputs are drawn from.           *)

MaxSigma == 3      \* largest number of source levels
MaxLev == 1        \* largest number of target levels (one more with two columns)

\* coordinate values: the levels of the documented scenario and -1
CoordVals == {-1, 20000, 50000, 100000}
\* target level values: below, equal to, between and above the coordinates
LevVals == {0, 50000, 75000, 150000}
\* coordinate values of the two-column specification
ColsCoordVals == {50000, 100000}

-----------------------------------------------------------------------------
(* Masked scalars and the numpy.ma arithmetic on them.                     *)

Abs(x) == IF x < 0 THEN -x ELSE x

RECURSIVE Gcd(_, _)
Gcd(a, b) == IF b = 0 THEN a ELSE Gcd(b, a % b)

MISSING == [mask |-> TRUE, num |-> 0, den |-> 1, sym |-> <<>>]

\* the rational n/d, d # 0, in lowest terms with a positive denominator
Rat(n, d) ==
    LET g == Gcd(Abs(n), Abs(d))
        s == IF d < 0 THEN -1 ELSE 1
    IN  [mask |-> FALSE, num |-> s * (n \div g), den |-> s * (d \div g), sym |-> <<>>]

Num(n) == Rat(n, 1)

\* numpy.ma binary operations: the result is masked where an operand is
MaskedAdd(x, y) ==
    IF x.mask \/ y.mask THEN MISSING
    ELSE Rat(x.num * y.den + y.num * x.den, x.den * y.den)

MaskedSub(x, y) ==
    IF x.mask \/ y.mask THEN MISSING
    ELSE Rat(x.num * y.den - y.num * x.den, x.den * y.den)

MaskedMul(x, y) ==
    IF x.mask \/ y.mask THEN MISSING
    ELSE Rat(x.num * y.num, x.den * y.den)

\* numpy.ma.true_divide: a domained operation, masked also where the divisor is 0
MaskedDiv(x, y) ==
    IF x.mask \/ y.mask THEN MISSING
    ELSE IF y.num = 0 THEN MISSING
    ELSE Rat(x.num * y.den, x.den * y.num)

-----------------------------------------------------------------------------
(* astype(MV2.float32): round to a 24-bit significand, ties to even; the   *)
(* mask is kept.                                                           *)

RECURSIVE Pow2(_)
Pow2(k) == IF k = 0 THEN 1 ELSE 2 * Pow2(k - 1)

RECURSIVE IsPow2(_)
IsPow2(d) == IF d = 1 THEN TRUE ELSE IF d % 2 = 1 THEN FALSE ELSE IsPow2(d \div 2)

Mant == 16777216   \* 2^24

\* least k >= 0 with a < 2^24 * 2^k
RECURSIVE ShiftDown(_, _)
ShiftDown(a, k) == IF a \div Pow2(k) < Mant THEN k ELSE ShiftDown(a, k + 1)

\* least k >= 0 with (a * 2^k) / d >= 2^23
RECURSIVE ShiftUp(_, _, _)
ShiftUp(a, d, k) == IF (a * Pow2(k)) \div d >= Mant \div 2 THEN k ELSE ShiftUp(a, d, k + 1)

\* the quotient p / q rounded to the nearest integer, ties to even
RoundHalfEven(p, q) ==
    LET f == p \div q
        r == p % q
    IN  IF 2 * r > q \/ (2 * r = q /\ f % 2 = 1) THEN f + 1 ELSE f

astype_float32(x) ==
    IF x.mask THEN MISSING
    ELSE IF x.sym # <<>> THEN x
    ELSE IF x.num = 0 THEN x
    ELSE LET a == Abs(x.num)
             s == IF x.num < 0 THEN -1 ELSE 1
         IN  IF IsPow2(x.den) /\ a < Mant THEN x
             ELSE IF a \div x.den >= Mant
                  THEN LET k == ShiftDown(a \div x.den, 0)
                       IN  Num(s * RoundHalfEven(a, x.den * Pow2(k)) * Pow2(k))
                  ELSE LET k == ShiftUp(a, x.den, 0)
                       IN  Rat(s * RoundHalfEven(a * Pow2(k), x.den), Pow2(k))

-----------------------------------------------------------------------------
(* Shapes.                                                                 *)

Cols == DOMAIN Idx
nsigma == Cardinality(DOMAIN Idx[CHOOSE c \in Cols : TRUE])
nlev == Cardinality(DOMAIN levels)

-----------------------------------------------------------------------------
(* BracketSearch: the body of the loop over target levels.                 *)

\* the bracket arrays at the start of a target level: all -1, Ieq all masked
ResetBracketsStale(cols) ==
    [Iabv |-> Iabv, Ibel |-> Ibel, Aabv |-> Aabv, Abel |-> Abel, Ieq |-> Ieq]

ResetBrackets(cols) ==
    [Iabv |-> [c \in cols |-> -1],
     Ibel |-> [c \in cols |-> -1],
     Aabv |-> [c \in cols |-> Num(-1)],
     Abel |-> [c \in cols |-> Num(-1)],
     Ieq  |-> [c \in cols |-> MISSING]]

\* a = logical_and(greater_equal(Idx[i], lev), less_equal(Idx[i - 1], lev))
InBracketNoLower(c, i, lev) == Idx[c][i] >= lev

InBracket(c, i, lev) == Idx[c][i] >= lev /\ Idx[c][i - 1] <= lev

\* MV2.equal(Idx[i], lev)
ExactAtGeq(c, i, lev) == Idx[c][i] >= lev

ExactAt(c, i, lev) == Idx[c][i] = lev

\* one pass of the loop over the source levels, for source level i
ScanStep(st, i, lev) ==
    [Iabv |-> [c \in Cols |-> IF InBracket(c, i, lev) THEN Idx[c][i] ELSE st.Iabv[c]],
     Aabv |-> [c \in Cols |-> IF InBracket(c, i, lev) THEN A[c][i] ELSE st.Aabv[c]],
     Ibel |-> [c \in Cols |-> IF InBracket(c, i, lev) THEN Idx[c][i - 1] ELSE st.Ibel[c]],
     Abel |-> [c \in Cols |-> IF InBracket(c, i, lev) THEN A[c][i - 1] ELSE st.Abel[c]],
     Ieq  |-> [c \in Cols |-> IF ExactAt(c, i, lev) THEN A[c][i] ELSE st.Ieq[c]]]

\* the j-th source level visited by range(1, nsigma), j = 1, 2, ...
ScanIndexRev(j) == nsigma - j

ScanIndex(j) == j

\* for i in range(1, nsigma)
RECURSIVE Scan(_, _, _)
Scan(st, j, lev) ==
    IF j > nsigma - 1 THEN st
    ELSE Scan(ScanStep(st, ScanIndex(j), lev), j + 1, lev)

-----------------------------------------------------------------------------
(* Interpolation, exact-match override and masking of one cell.            *)

\* val = masked_where(equal(Ibel, -1.), ones * lev)
MaskedVal(ibel, lev) == IF ibel = -1 THEN MISSING ELSE Num(lev)

\* tl = (val - Ibel) / (Iabv - Ibel) * (Aabv - Abel) + Abel
linearTlGuarded(val, ibel, iabv, aabv, abel) ==
    IF iabv = ibel THEN abel
    ELSE MaskedAdd(MaskedMul(MaskedDiv(MaskedSub(val, Num(ibel)),
                                       MaskedSub(Num(iabv), Num(ibel))),
                             MaskedSub(aabv, abel)),
                   abel)

linearTl(val, ibel, iabv, aabv, abel) ==
    MaskedAdd(MaskedMul(MaskedDiv(MaskedSub(val, Num(ibel)),
                                  MaskedSub(Num(iabv), Num(ibel))),
                        MaskedSub(aabv, abel)),
              abel)

\* tl = log(val / Pbel) / log(Pabv / Pbel) * (Aabv - Abel) + Abel
\* MV2.log masks arguments <= 0; log(1) = 0; x / x = 1; 0 * y = 0.
logTl(val, pbel, pabv, aabv, abel) ==
    LET r1 == MaskedDiv(val, Num(pbel))          \* val / Pbel
        r2 == MaskedDiv(Num(pabv), Num(pbel))    \* Pabv / Pbel
    IN  IF r1.mask \/ r2.mask \/ aabv.mask \/ abel.mask THEN MISSING
        ELSE IF r1.num <= 0 \/ r2.num <= 0 THEN MISSING   \* log domain
        ELSE IF r2 = Num(1) THEN MISSING                  \* division by log(1) = 0
        ELSE IF r1 = Num(1) THEN abel                     \* 0 / log(r2) = 0
        ELSE IF r1 = r2 THEN MaskedAdd(MaskedSub(aabv, abel), abel)
        ELSE IF aabv = abel THEN abel
        ELSE [mask |-> FALSE, num |-> 0, den |-> 1,
              sym |-> <<val.num, pbel, pabv, aabv.num, abel.num>>]

Interpolate(k, val, ibel, iabv, aabv, abel) ==
    IF k = "linear" THEN linearTl(val, ibel, iabv, aabv, abel)
    ELSE logTl(val, ibel, iabv, aabv, abel)

\* if Ieq.mask is nomask: tl = Ieq, else: tl = where(1 - Ieq.mask, Ieq, tl)
ExactMatchSelect(ieq, tl) ==
    IF \A c \in DOMAIN ieq : ~ieq[c].mask THEN ieq
    ELSE [c \in DOMAIN ieq |-> IF ~ieq[c].mask THEN ieq[c] ELSE tl[c]]

\* the slice written to t[ilev] from the bracket arrays st of target level lev
LevelSlice(st, lev) ==
    LET tl == [c \in Cols |->
                 Interpolate(kind, MaskedVal(st.Ibel[c], lev), st.Ibel[c], st.Iabv[c],
                             st.Aabv[c], st.Abel[c])]
        sel == ExactMatchSelect(st.Ieq, tl)
    IN  [c \in Cols |-> astype_float32(sel[c])]

-----------------------------------------------------------------------------
(* The initial states: the arguments of one call.                          *)

\* the valid value of field cell (c, i)
FieldVal(c, i) == 10 * (c - 1) + i + 1

\* which cells of a field of n levels are missing: at most miss cells a column
Masks(cols, n, miss) ==
    [cols -> {f \in [0 .. n - 1 -> BOOLEAN] :
                 Cardinality({i \in 0 .. n - 1 : f[i]}) <= miss}]

\* the arrays A and Idx (P) and the function called
Inputs(cols, cvals, sizes, miss) ==
    /\ kind \in {"linear", "log"}
    /\ \E n \in sizes :
         /\ Idx \in [cols -> [0 .. n - 1 -> cvals]]
         /\ \E m \in Masks(cols, n, miss) :
              A = [c \in cols |-> [i \in 0 .. n - 1 |->
                     IF m[c][i] THEN MISSING ELSE Num(FieldVal(c, i))]]

\* the state at the first statement of the loop over target levels (the
\* bracket arrays are not yet bound there: they start as the loop sets them)
Start(cols, bnds) ==
    /\ ilev = 0
    /\ Iabv = [c \in cols |-> -1]
    /\ Ibel = [c \in cols |-> -1]
    /\ Aabv = [c \in cols |-> Num(-1)]
    /\ Abel = [c \in cols |-> Num(-1)]
    /\ Ieq = [c \in cols |-> MISSING]
    /\ t = [k \in DOMAIN levels |-> [c \in cols |-> Num(0)]]
    /\ autoBounds \in bnds
    /\ autobnds = autoBounds
    /\ bounds0 = autoBounds
    /\ pc = "levels"

\* one column, every coordinate value, at most one missing field cell
Init ==
    /\ Inputs({1}, CoordVals, 1 .. MaxSigma, 1)
    /\ \E nl \in 1 .. MaxLev : levels \in [0 .. nl - 1 -> LevVals]
    /\ Start({1}, {2})

\* two columns of one or two source levels, one target level more
InitCols ==
    /\ Inputs({1, 2}, ColsCoordVals, {1, 2}, 1)
    /\ \E nl \in 1 .. MaxLev + 1 : levels \in [0 .. nl - 1 -> LevVals]
    /\ Start({1, 2}, {2})

\* one column, the target levels are the column's coordinate values
InitTrip ==
    /\ Inputs({1}, CoordVals, 1 .. MaxSigma, 1)
    /\ levels = Idx[1]
    /\ Start({1}, {2})

\* one column of one source level, every auto-bounds setting
InitAxis ==
    /\ Inputs({1}, CoordVals, {1}, 1)
    /\ \E nl \in 1 .. MaxLev : levels \in [0 .. nl - 1 -> LevVals]
    /\ Start({1}, {0, 1, 2})

-----------------------------------------------------------------------------
(* The actions.                                                            *)

\* one pass of "for ilev in range(nlev)"
LevelStep ==
    /\ pc = "levels"
    /\ ilev < nlev
    /\ LET lev == levels[ilev]
           st == Scan(ResetBrackets(Cols), 1, lev)
       IN  /\ Iabv' = st.Iabv
           /\ Ibel' = st.Ibel
           /\ Aabv' = st.Aabv
           /\ Abel' = st.Abel
           /\ Ieq' = st.Ieq
           /\ t' = [t EXCEPT ![ilev] = LevelSlice(st, lev)]
    /\ ilev' = ilev + 1
    /\ pc' = IF ilev + 1 = nlev THEN "getAutoBounds" ELSE "levels"
    /\ UNCHANGED <<kind, A, Idx, levels, autoBounds, autobnds, bounds0>>

\* autobnds = cdms2.getAutoBounds()
GetAutoBounds ==
    /\ pc = "getAutoBounds"
    /\ autobnds' = autoBounds
    /\ pc' = "setAutoBounds"
    /\ UNCHANGED <<kind, A, Idx, levels, ilev, Iabv, Ibel, Aabv, Abel, Ieq, t,
                   autoBounds, bounds0>>

\* cdms2.setAutoBounds('off')
SetAutoBoundsOff ==
    /\ pc = "setAutoBounds"
    /\ autoBounds' = 0
    /\ pc' = "createAxis"
    /\ UNCHANGED <<kind, A, Idx, levels, ilev, Iabv, Ibel, Aabv, Abel, Ieq, t,
                   autobnds, bounds0>>

\* lvl = cdms2.createAxis(...) returns
CreateAxis ==
    /\ pc = "createAxis"
    /\ pc' = "restore"
    /\ UNCHANGED <<kind, A, Idx, levels, ilev, Iabv, Ibel, Aabv, Abel, Ieq, t,
                   autoBounds, autobnds, bounds0>>

\* lvl = cdms2.createAxis(...) raises: the exception leaves the function
CreateAxisRaises ==
    /\ pc = "createAxis"
    /\ pc' = "raised"
    /\ UNCHANGED <<kind, A, Idx, levels, ilev, Iabv, Ibel, Aabv, Abel, Ieq, t,
                   autoBounds, autobnds, bounds0>>

\* cdms2.setAutoBounds(autobnds), then the metadata is set and t returned
RestoreAndReturn ==
    /\ pc = "restore"
    /\ autoBounds' = autobnds
    /\ pc' = "done"
    /\ UNCHANGED <<kind, A, Idx, levels, ilev, Iabv, Ibel, Aabv, Abel, Ieq, t,
                   autobnds, bounds0>>

Next ==
    \/ LevelStep
    \/ GetAutoBounds
    \/ SetAutoBoundsOff
    \/ CreateAxis
    \/ CreateAxisRaises
    \/ RestoreAndReturn

Spec == Init /\ [][Next]_vars
SpecCols == InitCols /\ [][Next]_vars
SpecTrip == InitTrip /\ [][Next]_vars
SpecAxis == InitAxis /\ [][Next]_vars

-----------------------------------------------------------------------------
(* The properties.  They are stated on the arguments and on the output,    *)
(* with the bracket condition written out again rather than taken from    *)
(* the operators above.                                                    *)

Done == 0 .. ilev - 1                \* the target levels already written
Levs == 0 .. nsigma - 1              \* the source levels
SetMax(S) == CHOOSE m \in S : \A x \in S : x <= m

\* the source levels i whose pair (i - 1, i) brackets lev in column c
Brackets(c, lev) ==
    {i \in 1 .. nsigma - 1 : Idx[c][i] >= lev /\ Idx[c][i - 1] <= lev}

\* the source levels whose coordinate equals lev in column c
Matches(c, lev) == {i \in Levs : Idx[c][i] = lev}

Monotonic(c) ==
    \/ \A i \in 1 .. nsigma - 1 : Idx[c][i - 1] <= Idx[c][i]
    \/ \A i \in 1 .. nsigma - 1 : Idx[c][i - 1] >= Idx[c][i]

FieldValid(c) == \A i \in Levs : ~A[c][i].mask

\* the closed form on the pair (i - 1, i) of column c
Formula(c, i, lev) ==
    MaskedAdd(MaskedMul(MaskedDiv(Num(lev - Idx[c][i - 1]),
                                  Num(Idx[c][i] - Idx[c][i - 1])),
                        MaskedSub(A[c][i], A[c][i - 1])),
              A[c][i - 1])

\* C1: wherever a coordinate of the column, at any source level i (0
\* included), equals the target level, the output cell is not missing and
\* equals Field[i].
C1_ExactMatch ==
    \A k \in Done : \A c \in Cols : \A i \in Matches(c, levels[k]) :
        ~A[c][i].mask => (~t[k][c].mask /\ t[k][c] = A[c][i])

\* What holds of C1: the last match at a source level i >= 1 gives the output.
C1_LastMatchFromOne ==
    \A k \in Done : \A c \in Cols :
        LET E == Matches(c, levels[k]) \ {0}
        IN  (E # {} /\ ~A[c][SetMax(E)].mask) => t[k][c] = A[c][SetMax(E)]

\* C2: a target level strictly below the minimum or strictly above the
\* maximum of the column's coordinates gives a missing output cell.
C2_OutOfRange ==
    \A k \in Done : \A c \in Cols :
        (\/ \A i \in Levs : levels[k] < Idx[c][i]
         \/ \A i \in Levs : levels[k] > Idx[c][i]) => t[k][c].mask

C2_Witness ==
    \E k \in Done : \E c \in Cols :
        /\ nsigma >= 2
        /\ \/ \A i \in Levs : levels[k] < Idx[c][i]
           \/ \A i \in Levs : levels[k] > Idx[c][i]
        /\ FieldValid(c)
        /\ t[k][c].mask

\* C3: linear interpolation on a monotonic column with exactly one
\* bracketing pair and no coordinate equal to the target level gives the
\* closed form on that pair.
C3_LinearFormula ==
    \A k \in Done : \A c \in Cols :
        (/\ kind = "linear"
         /\ Monotonic(c)
         /\ Cardinality(Brackets(c, levels[k])) = 1
         /\ Matches(c, levels[k]) = {})
        => t[k][c] = Formula(c, SetMax(Brackets(c, levels[k])), levels[k])

\* What holds of C3: the same, when the lower coordinate of the pair is not -1.
C3_LinearFormulaOffSentinel ==
    \A k \in Done : \A c \in Cols :
        (/\ kind = "linear"
         /\ Monotonic(c)
         /\ Cardinality(Brackets(c, levels[k])) = 1
         /\ Matches(c, levels[k]) = {}
         /\ Idx[c][SetMax(Brackets(c, levels[k])) - 1] # -1)
        => t[k][c] = Formula(c, SetMax(Brackets(c, levels[k])), levels[k])

\* the documented scenario: coordinates [20000, 50000, 100000], field
\* [1, 2, 3], target 75000 gives 2.5
C3_Scenario ==
    \A k \in Done : \A c \in Cols :
        (/\ kind = "linear"
         /\ nsigma = 3
         /\ Idx[c] = [i \in 0 .. 2 |-> IF i = 0 THEN 20000 ELSE IF i = 1 THEN 50000 ELSE 100000]
         /\ A[c] = [i \in 0 .. 2 |-> Num(i + 1)]
         /\ levels[k] = 75000)
        => t[k][c] = Rat(5, 2)

\* C4 as stated: no bracketing pair in the column gives a missing output
\* cell, and the loop over the target levels raises nothing.
C4_NoBracketMissing ==
    /\ \A k \in Done : \A c \in Cols :
           Brackets(c, levels[k]) = {} => t[k][c].mask
    /\ pc = "raised" => ilev = nlev

\* C4 as amended: no bracketing pair and no coordinate equal to the target
\* level at a source level i >= 1 gives a missing output cell, and the loop
\* over the target levels raises nothing.
C4_NoBracketNoMatchMissing ==
    /\ \A k \in Done : \A c \in Cols :
           (Brackets(c, levels[k]) = {} /\ Matches(c, levels[k]) \ {0} = {})
           => t[k][c].mask
    /\ pc = "raised" => ilev = nlev

C4_Witness ==
    \E k \in Done : \E c \in Cols :
        /\ Brackets(c, levels[k]) = {}
        /\ Matches(c, levels[k]) \ {0} = {}
        /\ \E i \in Levs : Idx[c][i] <= levels[k]
        /\ \E i \in Levs : Idx[c][i] >= levels[k]
        /\ FieldValid(c)
        /\ t[k][c].mask
        /\ pc = "done"

\* C5: at every exit of the call, normal or by an error, the auto-bounds
\* setting has the value it had when the call started, and it differs from
\* that value only around the construction of the new axis.
C5_AutoBoundsRestored ==
    /\ pc \in {"done", "raised"} => autoBounds = bounds0
    /\ autoBounds # bounds0 => pc \in {"createAxis", "restore"}

\* What holds of C5: the setting is restored at the normal return.
C5_RestoredOnReturn == pc = "done" => autoBounds = bounds0

\* C6: with the target levels set to the coordinates of a column, the
\* output at target index k is Field[k], for every k, and comes from the
\* exact-match value Ieq.
C6_RoundTrip ==
    \A c \in Cols :
        (nlev = nsigma /\ \A j \in Levs : levels[j] = Idx[c][j])
        => \A k \in Done :
               ~A[c][k].mask
               => /\ t[k][c] = A[c][k]
                  /\ k = ilev - 1 => (~Ieq[c].mask /\ Ieq[c] = A[c][k])

\* C7: where the bracket coordinates left by the scan are equal (a recorded
\* pair of zero span, or no pair at all), the output cell is missing or is
\* the field value of a source level whose coordinate equals the target.
C7_NoZeroSpan ==
    ilev >= 1 =>
        \A c \in Cols :
            Iabv[c] = Ibel[c]
            => \/ t[ilev - 1][c].mask
               \/ \E i \in Matches(c, levels[ilev - 1]) : t[ilev - 1][c] = A[c][i]

C7_Witness ==
    /\ ilev >= 1
    /\ \E c \in Cols :
          /\ Iabv[c] = Ibel[c]
          /\ Brackets(c, levels[ilev - 1]) # {}
          /\ ~t[ilev - 1][c].mask

\* C8: the bracket left by the scan is the one of the largest source level
\* whose pair brackets the target, and with several coordinates equal to
\* the target the exact-match value is the field of the largest of them.
C8_LastMatchWins ==
    ilev >= 1 =>
        \A c \in Cols :
            LET lev == levels[ilev - 1]
                B == Brackets(c, lev)
                E == Matches(c, lev)
            IN  /\ B # {} =>
                     /\ Iabv[c] = Idx[c][SetMax(B)]
                     /\ Ibel[c] = Idx[c][SetMax(B) - 1]
                     /\ Aabv[c] = A[c][SetMax(B)]
                     /\ Abel[c] = A[c][SetMax(B) - 1]
                /\ Cardinality(E) >= 2 => Ieq[c] = A[c][SetMax(E)]
                /\ (Cardinality(E) >= 2 /\ ~A[c][SetMax(E)].mask)
                     => t[ilev - 1][c] = A[c][SetMax(E)]

C8_Witness ==
    /\ ilev >= 1
    /\ \E c \in Cols :
          LET lev == levels[ilev - 1]
          IN  /\ Cardinality(Brackets(c, lev)) >= 2
              /\ Cardinality(Matches(c, lev)) >= 2
              /\ FieldValid(c)
              /\ Aabv[c] = A[c][nsigma - 1]
              /\ t[ilev - 1][c] = A[c][nsigma - 1]

\* the output cell as a function of one column's coordinates and field and
\* of one target level
CellOf(kd, coord, field, lev) ==
    LET n == Cardinality(DOMAIN coord)
        B == {i \in 1 .. n - 1 : coord[i] >= lev /\ coord[i - 1] <= lev}
        E == {i \in 1 .. n - 1 : coord[i] = lev}
        eq == IF E = {} THEN MISSING ELSE field[SetMax(E)]
        j == SetMax(B)
        tl == IF B = {} THEN MISSING
              ELSE Interpolate(kd, MaskedVal(coord[j - 1], lev), coord[j - 1],
                               coord[j], field[j], field[j - 1])
    IN  astype_float32(IF ~eq.mask THEN eq ELSE tl)

\* C9: the output cell of column c at target index k is a function of
\* column c's coordinates and field and of levels[k] alone.
C9_NoCoupling ==
    \A k \in Done : \A c \in Cols :
        t[k][c] = CellOf(kind, Idx[c], A[c], levels[k])

C9_Witness ==
    /\ ilev = 2
    /\ Cardinality(Cols) = 2
    /\ levels[0] # levels[1]
    /\ ~t[0][1].mask
    /\ t[1][1].mask
    /\ ~t[1][2].mask
    /\ t[1][2] # t[0][1]

\* C10: linear interpolation on a column of valid field values in which
\* some pair of distinct coordinates brackets the target level gives an
\* output cell that is not missing, whatever the coordinate values.
C10_NotOverMasked ==
    \A k \in Done : \A c \in Cols :
        (/\ kind = "linear"
         /\ FieldValid(c)
         /\ \E i \in Brackets(c, levels[k]) : Idx[c][i] # Idx[c][i - 1])
        => ~t[k][c].mask

\* What holds of C10: the same, when the lower coordinate of the last
\* bracketing pair is not -1.
C10_NotOverMaskedOffSentinel ==
    \A k \in Done : \A c \in Cols :
        (/\ kind = "linear"
         /\ FieldValid(c)
         /\ \E i \in Brackets(c, levels[k]) : Idx[c][i] # Idx[c][i - 1]
         /\ Idx[c][SetMax(Brackets(c, levels[k])) - 1] # -1)
        => ~t[k][c].mask

====
